---------------------------- MODULE Spec2Model ----------------------------
(***************************************************************************)
(* A model of ion's word lexer, src/parser/shell_expand/words.rs:          *)
(* WordIterator, its next() driver and its eight sub-lexers.               *)
(*                                                                         *)
(* The input line is a sequence of byte values.  Offsets (read, iter,      *)
(* start) are the 0-based offsets of the Rust code: the byte at offset i   *)
(* is data[i + 1].  Every byte the code pulls from its iterator is one     *)
(* step of the model, so the states inside a sub-lexer are visible.        *)
(***************************************************************************)
EXTENDS Naturals, Sequences, FiniteSets

VARIABLES
    data,       \* WordIterator.data: the input line, a sequence of bytes
    read,       \* WordIterator.read: the cursor
    flags,      \* WordIterator.flags: BACKSL / SQUOTE / DQUOTE bits
    pc,         \* the function the next byte is pulled by
    iter,       \* offset of the byte the `iterator` local yields next
    start,      \* the `start` local of the running function
    level,      \* the `level` local of process / array_process / braces
    elements,   \* the `elements` local of braces
    ret,        \* what the last completed call of next() returned
    out,        \* the tokens returned so far, in order
    callRead,   \* the cursor when the running call of next() began
    lexer,      \* the sub-lexer the running call of next() dispatched to
    entryFlags, \* the flags when that sub-lexer was entered
    entryStart  \* the `start` local when that sub-lexer was entered

vars == <<data, read, flags, pc, iter, start, level, elements, ret, out,
          callRead, lexer, entryFlags, entryStart>>

-----------------------------------------------------------------------------
(* Bytes *)

SP      == 32
DQT     == 34
DOLLAR  == 36
SQT     == 39
LPAREN  == 40
RPAREN  == 41
COMMA   == 44
AT      == 64
LBRACK  == 91
BSLASH  == 92
RBRACK  == 93
LBRACE  == 123
RBRACE  == 125
TILDE   == 126

(* Flag bits *)

BACKSL == 1
SQUOTE == 2
DQUOTE == 4

\* var & FLAG != 0
Has(f, FLAG) == (f \div FLAG) % 2 = 1

\* var ^= FLAG
Xor(f, FLAG) == IF Has(f, FLAG) THEN f - FLAG ELSE f + FLAG

\* Unquoted looking at the single-quote flag only
Unquoted_OnlySingle(f) == ~Has(f, SQUOTE)

\* Unquoted with the single-quote bit forgotten
Unquoted_OnlyDouble(f) == ~Has(f, DQUOTE)

\* self.flags & (SQUOTE + DQUOTE) == 0
Unquoted(f) == ~Has(f, SQUOTE) /\ ~Has(f, DQUOTE)

\* IsDelimiter with the first range, 0...47, left out
IsDelimiter_NoLowRange(c) ==
    \/ c \in 58..64
    \/ c \in 91..94
    \/ c = 96
    \/ c \in 123..127

\* the arm `0...47 | 58...64 | 91...94 | 96 | 123...127` of tilde, variable
\* and array_variable
IsDelimiter(c) ==
    \/ c \in 0..47
    \/ c \in 58..64
    \/ c \in 91..94
    \/ c = 96
    \/ c \in 123..127

-----------------------------------------------------------------------------
(* Tokens *)

Index_All == "All"

Normal(t)              == [kind |-> "Normal", text |-> t]
Whitespace(t)          == [kind |-> "Whitespace", text |-> t]
Tilde(t)               == [kind |-> "Tilde", text |-> t]
Brace(e)               == [kind |-> "Brace", elements |-> e]
Variable(t, q)         == [kind |-> "Variable", text |-> t, quoted |-> q]
ArrayVariable(t, q, i) == [kind |-> "ArrayVariable", text |-> t, quoted |-> q, index |-> i]
ArrayProcess(t, q, i)  == [kind |-> "ArrayProcess", text |-> t, quoted |-> q, index |-> i]
Process(t, q)          == [kind |-> "Process", text |-> t, quoted |-> q]

\* Option::None, the end-of-input signal of next()
None == [kind |-> "None"]

\* ret before the first call
NotCalled == [kind |-> "NotCalled"]

\* ret after panic!(msg) or a failed bounds check
Fatal(msg) == [kind |-> "Panic", msg |-> msg]

-----------------------------------------------------------------------------
(* The running state as a record, and the ways a function ends *)

St == [read |-> read, flags |-> flags, pc |-> pc, iter |-> iter,
       start |-> start, level |-> level, elements |-> elements,
       ret |-> ret, out |-> out, callRead |-> callRead, lexer |-> lexer,
       entryFlags |-> entryFlags, entryStart |-> entryStart]

Apply(n) ==
    /\ read' = n.read
    /\ flags' = n.flags
    /\ pc' = n.pc
    /\ iter' = n.iter
    /\ start' = n.start
    /\ level' = n.level
    /\ elements' = n.elements
    /\ ret' = n.ret
    /\ out' = n.out
    /\ callRead' = n.callRead
    /\ lexer' = n.lexer
    /\ entryFlags' = n.entryFlags
    /\ entryStart' = n.entryStart
    /\ data' = data

\* data.len()
DataLen == Len(data)

\* self.data.as_bytes()[i]
At(i) == data[i + 1]

\* &self.data[a..b]
Slice(a, b) == SubSeq(data, a + 1, b)

\* a range a..b the slice operator accepts
SliceOk(a, b) == a <= b /\ b <= DataLen

\* return Some(tok)
ReturnSome(s, tok) == [s EXCEPT !.pc = "ready", !.ret = tok, !.out = Append(@, tok)]

\* return Some(tok) where tok borrows &self.data[a..b]
ReturnSlice(s, tok, a, b) ==
    IF SliceOk(a, b)
    THEN ReturnSome(s, tok)
    ELSE [s EXCEPT !.pc = "panic", !.ret = Fatal("slice index out of range")]

\* return None
ReturnNone(s) == [s EXCEPT !.pc = "ready", !.ret = None]

\* panic!(msg)
Panic(s, msg) == [s EXCEPT !.pc = "panic", !.ret = Fatal(msg)]

\* a sub-lexer is entered: remember the flags and the `start` it starts from
Enter(s, fn) ==
    [s EXCEPT !.pc = fn, !.lexer = fn, !.entryFlags = s.flags, !.entryStart = s.start]


-----------------------------------------------------------------------------
(* The sub-lexers.  Each operator is the effect of one pass of the         *)
(* function's `while let Some(character) = iterator.next()` loop, or of    *)
(* the code after the loop when the iterator is exhausted.                 *)

\* Quoted reading the single-quote bit instead
Quoted_SingleBit(f) == Has(f, SQUOTE)

\* quoted: self.flags & DQUOTE != 0
Quoted(f) == Has(f, DQUOTE)

\* whitespaces returning the first space alone, without scanning on
whitespaces_FirstSpaceOnly ==
    ReturnSlice(St, Whitespace(Slice(start, read)), start, read)

\* whitespaces handing the spaces it scanned back to the next call: the
\* cursor is put back on the first space when the run ends
whitespaces_Rewind ==
    IF iter >= DataLen
    THEN ReturnSlice(St, Whitespace(Slice(start, read)), start, read)
    ELSE LET s == [St EXCEPT !.iter = @ + 1] IN
         IF At(iter) = SP
         THEN [s EXCEPT !.read = @ + 1]
         ELSE ReturnSlice([s EXCEPT !.read = start], Whitespace(Slice(start, read)),
                          start, read)

\* whitespaces, from its loop on (start and read were set on entry)
whitespaces ==
    IF iter >= DataLen
    THEN ReturnSlice(St, Whitespace(Slice(start, read)), start, read)
    ELSE LET s == [St EXCEPT !.iter = @ + 1] IN
         IF At(iter) = SP
         THEN [s EXCEPT !.read = @ + 1]
         ELSE ReturnSlice(s, Whitespace(Slice(start, read)), start, read)

\* tilde starting its token after the `~`
tilde_NoSigil ==
    IF iter >= DataLen
    THEN ReturnSlice(St, Tilde(Slice(start + 1, DataLen)), start + 1, DataLen)
    ELSE LET s == [St EXCEPT !.iter = @ + 1] IN
         IF IsDelimiter(At(iter))
         THEN ReturnSlice(s, Tilde(Slice(start + 1, read)), start + 1, read)
         ELSE [s EXCEPT !.read = @ + 1]

\* tilde
tilde ==
    IF iter >= DataLen
    THEN ReturnSlice(St, Tilde(Slice(start, DataLen)), start, DataLen)
    ELSE LET s == [St EXCEPT !.iter = @ + 1] IN
         IF IsDelimiter(At(iter))
         THEN ReturnSlice(s, Tilde(Slice(start, read)), start, read)
         ELSE [s EXCEPT !.read = @ + 1]

\* braced_variable returning the rest of the line at end of input, as
\* variable does, instead of panicking
braced_variable_Lenient ==
    IF iter >= DataLen
    THEN ReturnSlice(St, Variable(Slice(start, DataLen), Quoted(flags)), start, DataLen)
    ELSE LET s == [St EXCEPT !.iter = @ + 1] IN
         IF At(iter) = RBRACE
         THEN ReturnSlice([s EXCEPT !.read = @ + 1],
                          Variable(Slice(start, read), Quoted(flags)), start, read)
         ELSE [s EXCEPT !.read = @ + 1]

\* braced_variable
braced_variable ==
    IF iter >= DataLen
    THEN Panic(St, "unterminated braced variable")
    ELSE LET s == [St EXCEPT !.iter = @ + 1] IN
         IF At(iter) = RBRACE
         THEN ReturnSlice([s EXCEPT !.read = @ + 1],
                          Variable(Slice(start, read), Quoted(flags)), start, read)
         ELSE [s EXCEPT !.read = @ + 1]

\* variable
variable ==
    IF iter >= DataLen
    THEN ReturnSlice(St, Variable(Slice(start, DataLen), Quoted(flags)), start, DataLen)
    ELSE LET s == [St EXCEPT !.iter = @ + 1] IN
         IF IsDelimiter(At(iter))
         THEN ReturnSlice(s, Variable(Slice(start, read), Quoted(flags)), start, read)
         ELSE [s EXCEPT !.read = @ + 1]

\* array_variable
array_variable ==
    IF iter >= DataLen
    THEN ReturnSlice(St, ArrayVariable(Slice(start, DataLen), Quoted(flags), Index_All),
                     start, DataLen)
    ELSE LET s == [St EXCEPT !.iter = @ + 1] IN
         IF IsDelimiter(At(iter))
         THEN ReturnSlice(s, Variable(Slice(start, read), Quoted(flags)), start, read)
         ELSE [s EXCEPT !.read = @ + 1]

\* process_nest without the look at the byte after `$`: no nesting
process_nest_Flat(lvl) == lvl

\* process: the change of `level` at a `$` outside single quotes
process_nest(lvl) == IF At(read + 1) = LPAREN THEN lvl + 1 ELSE lvl

\* process
process ==
    IF iter >= DataLen
    THEN Panic(St, "unterminated process")
    ELSE LET s == [St EXCEPT !.iter = @ + 1]
             c == At(iter)
             step(t) == [t EXCEPT !.read = @ + 1]
         IN
         IF Has(flags, BACKSL) THEN step([s EXCEPT !.flags = Xor(@, BACKSL)])
         ELSE IF c = BSLASH THEN step([s EXCEPT !.flags = Xor(@, BACKSL)])
         ELSE IF c = SQT /\ ~Has(flags, DQUOTE) THEN step([s EXCEPT !.flags = Xor(@, SQUOTE)])
         ELSE IF c = DQT /\ ~Has(flags, SQUOTE) THEN step([s EXCEPT !.flags = Xor(@, DQUOTE)])
         ELSE IF c = DOLLAR /\ ~Has(flags, SQUOTE)
              THEN IF read + 1 >= DataLen
                   THEN Panic(s, "index out of bounds")
                   ELSE step([s EXCEPT !.level = process_nest(@)])
         ELSE IF c = RPAREN /\ ~Has(flags, SQUOTE)
              THEN IF level = 0
                   THEN ReturnSlice([s EXCEPT !.read = @ + 1],
                                    Process(Slice(start, read), Quoted(flags)), start, read)
                   ELSE step([s EXCEPT !.level = @ - 1])
         ELSE step(s)

\* array_process_nest counting every `@`, whatever follows it
array_process_nest_EveryAt(lvl) == lvl + 1

\* array_process: the change of `level` at an `@` outside single quotes
array_process_nest(lvl) == IF At(read + 1) = LBRACK THEN lvl + 1 ELSE lvl

\* array_process
array_process ==
    IF iter >= DataLen
    THEN Panic(St, "unterminated array process")
    ELSE LET s == [St EXCEPT !.iter = @ + 1]
             c == At(iter)
             step(t) == [t EXCEPT !.read = @ + 1]
         IN
         IF Has(flags, BACKSL) THEN step([s EXCEPT !.flags = Xor(@, BACKSL)])
         ELSE IF c = BSLASH THEN step([s EXCEPT !.flags = Xor(@, BACKSL)])
         ELSE IF c = SQT /\ ~Has(flags, DQUOTE) THEN step([s EXCEPT !.flags = Xor(@, SQUOTE)])
         ELSE IF c = DQT /\ ~Has(flags, SQUOTE) THEN step([s EXCEPT !.flags = Xor(@, DQUOTE)])
         ELSE IF c = AT /\ ~Has(flags, SQUOTE)
              THEN IF read + 1 >= DataLen
                   THEN Panic(s, "index out of bounds")
                   ELSE step([s EXCEPT !.level = array_process_nest(@)])
         ELSE IF c = RBRACK /\ ~Has(flags, SQUOTE)
              THEN IF level = 0
                   THEN ReturnSlice([s EXCEPT !.read = @ + 1],
                                    ArrayProcess(Slice(start, read), Quoted(flags), Index_All),
                                    start, read)
                   ELSE step([s EXCEPT !.level = @ - 1])
         ELSE step(s)

\* braces splitting at every unquoted comma, whatever the nesting level
braces_SplitNested ==
    IF iter >= DataLen
    THEN Panic(St, "unterminated brace")
    ELSE LET s == [St EXCEPT !.iter = @ + 1]
             c == At(iter)
             step(t) == [t EXCEPT !.read = @ + 1]
         IN
         IF Has(flags, BACKSL) THEN step([s EXCEPT !.flags = Xor(@, BACKSL)])
         ELSE IF c = BSLASH THEN step([s EXCEPT !.flags = Xor(@, BACKSL)])
         ELSE IF c = SQT /\ ~Has(flags, DQUOTE) THEN step([s EXCEPT !.flags = Xor(@, SQUOTE)])
         ELSE IF c = DQT /\ ~Has(flags, SQUOTE) THEN step([s EXCEPT !.flags = Xor(@, DQUOTE)])
         ELSE IF c = COMMA /\ Unquoted(flags)
              THEN IF SliceOk(start, read)
                   THEN step([s EXCEPT !.elements = Append(@, Slice(start, read)),
                                       !.start = read + 1])
                   ELSE Panic(s, "slice index out of range")
         ELSE IF c = LBRACE /\ Unquoted(flags) THEN step([s EXCEPT !.level = @ + 1])
         ELSE IF c = RBRACE /\ Unquoted(flags)
              THEN IF level = 0
                   THEN ReturnSlice([s EXCEPT !.read = @ + 1,
                                              !.elements = Append(@, Slice(start, read))],
                                    Brace(Append(elements, Slice(start, read))), start, read)
                   ELSE step([s EXCEPT !.level = @ - 1])
         ELSE step(s)

\* braces
braces ==
    IF iter >= DataLen
    THEN Panic(St, "unterminated brace")
    ELSE LET s == [St EXCEPT !.iter = @ + 1]
             c == At(iter)
             step(t) == [t EXCEPT !.read = @ + 1]
         IN
         IF Has(flags, BACKSL) THEN step([s EXCEPT !.flags = Xor(@, BACKSL)])
         ELSE IF c = BSLASH THEN step([s EXCEPT !.flags = Xor(@, BACKSL)])
         ELSE IF c = SQT /\ ~Has(flags, DQUOTE) THEN step([s EXCEPT !.flags = Xor(@, SQUOTE)])
         ELSE IF c = DQT /\ ~Has(flags, SQUOTE) THEN step([s EXCEPT !.flags = Xor(@, DQUOTE)])
         ELSE IF c = COMMA /\ Unquoted(flags) /\ level = 0
              THEN IF SliceOk(start, read)
                   THEN step([s EXCEPT !.elements = Append(@, Slice(start, read)),
                                       !.start = read + 1])
                   ELSE Panic(s, "slice index out of range")
         ELSE IF c = LBRACE /\ Unquoted(flags) THEN step([s EXCEPT !.level = @ + 1])
         ELSE IF c = RBRACE /\ Unquoted(flags)
              THEN IF level = 0
                   THEN ReturnSlice([s EXCEPT !.read = @ + 1,
                                              !.elements = Append(@, Slice(start, read))],
                                    Brace(Append(elements, Slice(start, read))), start, read)
                   ELSE step([s EXCEPT !.level = @ - 1])
         ELSE step(s)

-----------------------------------------------------------------------------
(* The driver, Iterator::next *)

\* lines 256-259: the end test, then the iterator and `start` are set up
next_begin ==
    IF read = DataLen
    THEN ReturnNone([St EXCEPT !.callRead = read, !.lexer = "none"])
    ELSE [St EXCEPT !.pc = "next_loop", !.iter = read, !.start = read,
                    !.callRead = read, !.lexer = "none"]

\* the match on the byte after `@`
next_at(s) ==
    IF iter + 1 < DataLen /\ At(iter + 1) = LBRACK
    THEN Enter([s EXCEPT !.iter = iter + 2, !.read = read + 2,
                         !.start = read + 2, !.level = 0], "array_process")
    ELSE Enter([s EXCEPT !.iter = IF iter + 1 < DataLen THEN iter + 2 ELSE iter + 1,
                         !.start = read + 1, !.read = read + 2], "array_variable")

\* the match on the byte after `$`
next_dollar(s) ==
    IF iter + 1 < DataLen /\ At(iter + 1) = LPAREN
    THEN Enter([s EXCEPT !.iter = iter + 2, !.read = read + 2,
                         !.start = read + 2, !.level = 0], "process")
    ELSE IF iter + 1 < DataLen /\ At(iter + 1) = LBRACE
    THEN Enter([s EXCEPT !.iter = iter + 2, !.read = read + 2,
                         !.start = read + 2], "braced_variable")
    ELSE Enter([s EXCEPT !.iter = IF iter + 1 < DataLen THEN iter + 2 ELSE iter + 1,
                         !.start = read + 1, !.read = read + 2], "variable")

\* the first loop leaving for the plain-text loop without counting the
\* byte it read
next_loop_BreakWithoutRead ==
    IF iter >= DataLen
    THEN ReturnNone(St)
    ELSE LET s == [St EXCEPT !.iter = @ + 1]
             c == At(iter)
         IN
         IF c = SQT /\ ~Has(flags, DQUOTE)
         THEN [s EXCEPT !.start = @ + 1, !.read = @ + 1, !.flags = Xor(@, SQUOTE)]
         ELSE IF c = DQT /\ ~Has(flags, SQUOTE)
         THEN [s EXCEPT !.start = @ + 1, !.read = @ + 1, !.flags = Xor(@, DQUOTE)]
         ELSE IF c = SP /\ Unquoted(flags)
         THEN Enter([s EXCEPT !.start = read, !.read = read + 1], "whitespaces")
         ELSE IF c = TILDE /\ Unquoted(flags)
         THEN Enter([s EXCEPT !.read = read + 1, !.start = read], "tilde")
         ELSE IF c = LBRACE /\ Unquoted(flags)
         THEN Enter([s EXCEPT !.read = read + 1, !.start = read + 1, !.level = 0,
                              !.elements = <<>>], "braces")
         ELSE IF c = AT /\ ~Has(flags, SQUOTE) THEN next_at(s)
         ELSE IF c = DOLLAR /\ ~Has(flags, SQUOTE) THEN next_dollar(s)
         ELSE [s EXCEPT !.pc = "normal_loop", !.lexer = "normal"]

\* lines 261-322: one pass of the first loop
next_loop ==
    IF iter >= DataLen
    THEN ReturnNone(St)
    ELSE LET s == [St EXCEPT !.iter = @ + 1]
             c == At(iter)
         IN
         IF c = SQT /\ ~Has(flags, DQUOTE)
         THEN [s EXCEPT !.start = @ + 1, !.read = @ + 1, !.flags = Xor(@, SQUOTE)]
         ELSE IF c = DQT /\ ~Has(flags, SQUOTE)
         THEN [s EXCEPT !.start = @ + 1, !.read = @ + 1, !.flags = Xor(@, DQUOTE)]
         ELSE IF c = SP /\ Unquoted(flags)
         THEN Enter([s EXCEPT !.start = read, !.read = read + 1], "whitespaces")
         ELSE IF c = TILDE /\ Unquoted(flags)
         THEN Enter([s EXCEPT !.read = read + 1, !.start = read], "tilde")
         ELSE IF c = LBRACE /\ Unquoted(flags)
         THEN Enter([s EXCEPT !.read = read + 1, !.start = read + 1, !.level = 0,
                              !.elements = <<>>], "braces")
         ELSE IF c = AT /\ ~Has(flags, SQUOTE) THEN next_at(s)
         ELSE IF c = DOLLAR /\ ~Has(flags, SQUOTE) THEN next_dollar(s)
         ELSE [s EXCEPT !.read = @ + 1, !.pc = "normal_loop", !.lexer = "normal"]

\* the plain-text loop toggling a quote flag at every unescaped quote
\* character, whichever quote is open
normal_loop_AnyQuoteToggles ==
    IF iter >= DataLen
    THEN IF start = read
         THEN ReturnNone(St)
         ELSE ReturnSlice(St, Normal(Slice(start, DataLen)), start, DataLen)
    ELSE LET s == [St EXCEPT !.iter = @ + 1]
             c == At(iter)
             step(t) == [t EXCEPT !.read = @ + 1]
         IN
         IF Has(flags, BACKSL) THEN step([s EXCEPT !.flags = Xor(@, BACKSL)])
         ELSE IF c = BSLASH THEN step([s EXCEPT !.flags = Xor(@, BACKSL)])
         ELSE IF c = SQT
         THEN ReturnSlice([s EXCEPT !.flags = Xor(@, SQUOTE), !.read = @ + 1],
                          Normal(Slice(start, read)), start, read)
         ELSE IF c = DQT
         THEN ReturnSlice([s EXCEPT !.flags = Xor(@, DQUOTE), !.read = @ + 1],
                          Normal(Slice(start, read)), start, read)
         ELSE IF c \in {SP, LBRACE} /\ Unquoted(flags)
         THEN ReturnSlice(s, Normal(Slice(start, read)), start, read)
         ELSE IF c \in {DOLLAR, AT} /\ ~Has(flags, SQUOTE)
         THEN ReturnSlice(s, Normal(Slice(start, read)), start, read)
         ELSE step(s)

\* lines 324-356: one pass of the plain-text loop, or the code after it
normal_loop ==
    IF iter >= DataLen
    THEN IF start = read
         THEN ReturnNone(St)
         ELSE ReturnSlice(St, Normal(Slice(start, DataLen)), start, DataLen)
    ELSE LET s == [St EXCEPT !.iter = @ + 1]
             c == At(iter)
             step(t) == [t EXCEPT !.read = @ + 1]
         IN
         IF Has(flags, BACKSL) THEN step([s EXCEPT !.flags = Xor(@, BACKSL)])
         ELSE IF c = BSLASH THEN step([s EXCEPT !.flags = Xor(@, BACKSL)])
         ELSE IF c = SQT /\ ~Has(flags, DQUOTE)
         THEN ReturnSlice([s EXCEPT !.flags = Xor(@, SQUOTE), !.read = @ + 1],
                          Normal(Slice(start, read)), start, read)
         ELSE IF c = DQT /\ ~Has(flags, SQUOTE)
         THEN ReturnSlice([s EXCEPT !.flags = Xor(@, DQUOTE), !.read = @ + 1],
                          Normal(Slice(start, read)), start, read)
         ELSE IF c \in {SP, LBRACE} /\ Unquoted(flags)
         THEN ReturnSlice(s, Normal(Slice(start, read)), start, read)
         ELSE IF c \in {DOLLAR, AT} /\ ~Has(flags, SQUOTE)
         THEN ReturnSlice(s, Normal(Slice(start, read)), start, read)
         ELSE step(s)

-----------------------------------------------------------------------------
(* Actions *)

Call          == pc = "ready" /\ Apply(next_begin)
NextLoop      == pc = "next_loop" /\ Apply(next_loop)
NormalLoop    == pc = "normal_loop" /\ Apply(normal_loop)
Whitespaces   == pc = "whitespaces" /\ Apply(whitespaces)
TildeStep     == pc = "tilde" /\ Apply(tilde)
BracedVar     == pc = "braced_variable" /\ Apply(braced_variable)
VariableStep  == pc = "variable" /\ Apply(variable)
ArrayVarStep  == pc = "array_variable" /\ Apply(array_variable)
ProcessStep   == pc = "process" /\ Apply(process)
ArrayProcStep == pc = "array_process" /\ Apply(array_process)
BracesStep    == pc = "braces" /\ Apply(braces)

Next ==
    \/ Call
    \/ NextLoop
    \/ NormalLoop
    \/ Whitespaces
    \/ TildeStep
    \/ BracedVar
    \/ VariableStep
    \/ ArrayVarStep
    \/ ProcessStep
    \/ ArrayProcStep
    \/ BracesStep

-----------------------------------------------------------------------------
(* Input lines *)

\* a name byte (`a`) and a byte that ends a name and is special nowhere (`/`)
LETTER == 97
SLASH  == 47

\* every sequence over S of length at most n
SeqsUpTo(S, n) == UNION {[1..k -> S] : k \in 0..n}

\* the longest line of the exhaustive family
MaxLen == 3

Alphabet == {SP, DQT, DOLLAR, SQT, LPAREN, RPAREN, COMMA, AT, LBRACK, BSLASH,
             RBRACK, LBRACE, RBRACE, TILDE, LETTER, SLASH}

\* every line of at most MaxLen bytes
ShortLines == SeqsUpTo(Alphabet, MaxLen)

\* the longest body of the nested-substitution family
MaxNest == 7

\* `$(` followed by any mix of `$`, `(`, `)` and a letter
NestLines ==
    {<<DOLLAR, LPAREN>> \o b : b \in SeqsUpTo({DOLLAR, LPAREN, RPAREN, LETTER}, MaxNest)}

\* the longest body of the quoted-substitution family
MaxBody == 4

Openers == {<<DOLLAR, LPAREN>>, <<DQT, DOLLAR, LPAREN>>,
            <<AT, LBRACK>>, <<DQT, AT, LBRACK>>}

\* a substitution opener, bare or after `"`, followed by any mix of quotes,
\* closers and a letter
SubstLines ==
    {o \o b : o \in Openers, b \in SeqsUpTo({SQT, DQT, RPAREN, RBRACK, LETTER}, MaxBody)}

\* the longest body of the quote-wrapped family
MaxWrapped == 3

\* a quote character, a body without `'` and `\`, and the same quote again
WrappedLines ==
    {<<q>> \o b \o <<q>> :
        q \in {SQT, DQT},
        b \in SeqsUpTo({DOLLAR, AT, LBRACE, TILDE, DQT, SP, LETTER, SLASH}, MaxWrapped)}

\* the longest body of the brace-group family
MaxBrace == 5

\* `{` followed by any mix of commas, braces, a letter, a backslash and `"`
BraceLines ==
    {<<LBRACE>> \o b :
        b \in SeqsUpTo({COMMA, LBRACE, RBRACE, LETTER, BSLASH, DQT}, MaxBrace)}

\* the longest body of the braced-variable family
MaxBraced == 4

\* `${` followed by any mix of a letter, a backslash and `}`
BracedLines ==
    {<<DOLLAR, LBRACE>> \o b : b \in SeqsUpTo({LETTER, BSLASH, RBRACE}, MaxBraced)}

\* the longest body of the mixed-substitution family
MaxMixed == 4

\* `$(` or `@[` followed by any mix of the sigils, the brackets of both
\* substitution kinds and a letter
MixedLines ==
    {o \o b : o \in {<<DOLLAR, LPAREN>>, <<AT, LBRACK>>},
              b \in SeqsUpTo({DOLLAR, LPAREN, RPAREN, AT, LBRACK, RBRACK, LETTER}, MaxMixed)}

\* the line echo $(echo $(echo one)) $(echo one $(echo two) three)
Line_words_process_recursion ==
    <<101, 99, 104, 111, 32, 36, 40, 101, 99, 104, 111, 32, 36, 40, 101,
      99, 104, 111, 32, 111, 110, 101, 41, 41, 32, 36, 40, 101, 99, 104,
      111, 32, 111, 110, 101, 32, 36, 40, 101, 99, 104, 111, 32, 116, 119,
      111, 41, 32, 116, 104, 114, 101, 101, 41>>

\* the line echo $(git branch | rg '[*]' | awk '{print $2}')
Line_words_process_with_quotes_1 ==
    <<101, 99, 104, 111, 32, 36, 40, 103, 105, 116, 32, 98, 114, 97, 110,
      99, 104, 32, 124, 32, 114, 103, 32, 39, 91, 42, 93, 39, 32, 124, 32,
      97, 119, 107, 32, 39, 123, 112, 114, 105, 110, 116, 32, 36, 50, 125,
      39, 41>>

\* the line echo $(git branch | rg "[*]" | awk '{print $2}')
Line_words_process_with_quotes_2 ==
    <<101, 99, 104, 111, 32, 36, 40, 103, 105, 116, 32, 98, 114, 97, 110,
      99, 104, 32, 124, 32, 114, 103, 32, 34, 91, 42, 93, 34, 32, 124, 32,
      97, 119, 107, 32, 39, 123, 112, 114, 105, 110, 116, 32, 36, 50, 125,
      39, 41>>

\* the line echo $ABC "${ABC}" one{$ABC,$ABC} ~ $(echo foo) "$(seq 1 100)"
Line_test_words ==
    <<101, 99, 104, 111, 32, 36, 65, 66, 67, 32, 34, 36, 123, 65, 66, 67,
      125, 34, 32, 111, 110, 101, 123, 36, 65, 66, 67, 44, 36, 65, 66, 67,
      125, 32, 126, 32, 36, 40, 101, 99, 104, 111, 32, 102, 111, 111, 41,
      32, 34, 36, 40, 115, 101, 113, 32, 49, 32, 49, 48, 48, 41, 34>>

\* the lines the specification gives as examples
\* the line "$A"
Line_dq_variable == <<34, 36, 65, 34>>

\* the line '$A'
Line_sq_variable == <<39, 36, 65, 39>>

\* the line @arr rest
Line_array_variable_rest == <<64, 97, 114, 114, 32, 114, 101, 115, 116>>

\* the line @arr
Line_array_variable == <<64, 97, 114, 114>>

\* the line echo $(echo $(echo one))
Line_nested_process ==
    <<101, 99, 104, 111, 32, 36, 40, 101, 99, 104, 111, 32, 36,
      40, 101, 99, 104, 111, 32, 111, 110, 101, 41, 41>>

\* the line $(echo one $(echo two) three)
Line_sibling_process ==
    <<36,
      40, 101, 99, 104, 111, 32, 111, 110, 101, 32, 36, 40, 101, 99, 104, 111, 32,
      116, 119, 111, 41, 32, 116, 104, 114, 101, 101, 41>>

\* the line "$A b"
Line_dq_variable_rest == <<34, 36, 65, 32, 98, 34>>

\* the line one{$ABC,$ABC}
Line_brace_elements == <<111, 110, 101, 123, 36, 65, 66, 67, 44, 36, 65, 66, 67, 125>>

\* the line a\$B
Line_escaped_dollar == <<97, 92, 36, 66>>

\* the line \$B
Line_leading_escape == <<92, 36, 66>>

\* the line ${a\}b}
Line_escaped_brace_name == <<36, 123, 97, 92, 125, 98, 125>>

\* the line "a\'b" and the line 'a\"b'
Line_escaped_other_quote_dq == <<34, 97, 92, 39, 98, 34>>
Line_escaped_other_quote_sq == <<39, 97, 92, 34, 98, 39>>

\* the line @[echo @[echo one] two]
Line_nested_array_process ==
    <<64, 91, 101, 99, 104, 111, 32, 64, 91, 101, 99, 104, 111, 32, 111, 110, 101,
      93, 32, 116, 119, 111, 93>>

\* the line @[a $(b [c) @[d (e)]]
Line_mixed_array_process ==
    <<64, 91, 97, 32, 36, 40, 98, 32, 91, 99, 41, 32, 64, 91, 100, 32, 40, 101,
      41, 93, 93>>

\* the lines ~/foo, ~user/dir and ~a.b-c
Line_tilde_path == <<126, 47, 102, 111, 111>>
Line_tilde_user_path == <<126, 117, 115, 101, 114, 47, 100, 105, 114>>
Line_tilde_punctuation == <<126, 97, 46, 98, 45, 99>>

\* the line of a space, an empty pair of single quotes and a space, and
\* the same line with a letter on each side
Line_spaces_around_quotes == <<32, 39, 39, 32>>
Line_words_around_quotes == <<97, 32, 34, 34, 32, 32, 98>>

\* the line ''"" and the line ''a""
Line_quote_pairs == <<39, 39, 34, 34>>
Line_quote_pairs_letter == <<39, 39, 97, 34, 34>>

ExampleLines == {Line_dq_variable, Line_sq_variable, Line_array_variable_rest,
                 Line_array_variable, Line_nested_process, Line_sibling_process,
                 Line_dq_variable_rest, Line_brace_elements, Line_escaped_dollar,
                 Line_leading_escape, Line_escaped_brace_name,
                 Line_escaped_other_quote_dq, Line_escaped_other_quote_sq,
                 Line_nested_array_process, Line_mixed_array_process,
                 Line_tilde_path, Line_tilde_user_path, Line_tilde_punctuation,
                 Line_spaces_around_quotes, Line_words_around_quotes,
                 Line_quote_pairs, Line_quote_pairs_letter}

TestLines == {Line_words_process_recursion, Line_words_process_with_quotes_1,
              Line_words_process_with_quotes_2, Line_test_words}

Lines ==
    ShortLines \cup NestLines \cup SubstLines \cup WrappedLines \cup TestLines
        \cup ExampleLines \cup BraceLines \cup BracedLines \cup MixedLines

\* WordIterator::new(data)
Init ==
    /\ data \in Lines
    /\ read = 0
    /\ flags = 0
    /\ pc = "ready"
    /\ iter = 0
    /\ start = 0
    /\ level = 0
    /\ elements = <<>>
    /\ ret = NotCalled
    /\ out = <<>>
    /\ callRead = 0
    /\ lexer = "none"
    /\ entryFlags = 0
    /\ entryStart = 0

Spec == Init /\ [][Next]_vars

-----------------------------------------------------------------------------
(* The token vectors the tests of words.rs expect *)

\* the `expected` vector of words_process_recursion
Expected_words_process_recursion ==
    <<Normal(<<101, 99, 104, 111>>),  \* Normal("echo")
      Whitespace(<<32>>),  \* Whitespace(" ")
      Process(<<101, 99, 104, 111, 32, 36, 40, 101, 99, 104, 111, 32, 111, 110, 101, 41>>, FALSE),  \* Process("echo $(echo one)", false)
      Whitespace(<<32>>),  \* Whitespace(" ")
      Process(<<101, 99, 104, 111, 32, 111, 110, 101, 32, 36, 40, 101, 99, 104, 111, 32, 116, 119, 111, 41, 32, 116, 104, 114, 101, 101>>, FALSE)>>  \* Process("echo one $(echo two) three", false)

\* the `expected` vector of words_process_with_quotes (first input)
Expected_words_process_with_quotes_1 ==
    <<Normal(<<101, 99, 104, 111>>),  \* Normal("echo")
      Whitespace(<<32>>),  \* Whitespace(" ")
      Process(<<103, 105, 116, 32, 98, 114, 97, 110, 99, 104, 32, 124, 32, 114, 103, 32, 39, 91, 42, 93, 39, 32, 124, 32, 97, 119, 107, 32, 39, 123, 112, 114, 105, 110, 116, 32, 36, 50, 125, 39>>, FALSE)>>  \* Process("git branch | rg '[*]' | awk '{print $2}'", false)

\* the `expected` vector of words_process_with_quotes (second input)
Expected_words_process_with_quotes_2 ==
    <<Normal(<<101, 99, 104, 111>>),  \* Normal("echo")
      Whitespace(<<32>>),  \* Whitespace(" ")
      Process(<<103, 105, 116, 32, 98, 114, 97, 110, 99, 104, 32, 124, 32, 114, 103, 32, 34, 91, 42, 93, 34, 32, 124, 32, 97, 119, 107, 32, 39, 123, 112, 114, 105, 110, 116, 32, 36, 50, 125, 39>>, FALSE)>>  \* Process("git branch | rg "[*]" | awk '{print $2}'", false)

\* the `expected` vector of test_words
Expected_test_words ==
    <<Normal(<<101, 99, 104, 111>>),  \* Normal("echo")
      Whitespace(<<32>>),  \* Whitespace(" ")
      Variable(<<65, 66, 67>>, FALSE),  \* Variable("ABC", false)
      Whitespace(<<32>>),  \* Whitespace(" ")
      Variable(<<65, 66, 67>>, TRUE),  \* Variable("ABC", true)
      Whitespace(<<32>>),  \* Whitespace(" ")
      Normal(<<111, 110, 101>>),  \* Normal("one")
      Brace(<<<<36, 65, 66, 67>>, <<36, 65, 66, 67>>>>),  \* Brace([$ABC, $ABC])
      Whitespace(<<32>>),  \* Whitespace(" ")
      Tilde(<<126>>),  \* Tilde("~")
      Whitespace(<<32>>),  \* Whitespace(" ")
      Process(<<101, 99, 104, 111, 32, 102, 111, 111>>, FALSE),  \* Process("echo foo", false)
      Whitespace(<<32>>),  \* Whitespace(" ")
      Process(<<115, 101, 113, 32, 49, 32, 49, 48, 48>>, TRUE)>>  \* Process("seq 1 100", true)

-----------------------------------------------------------------------------
(* Vocabulary of the properties *)

\* next() has returned and has not been called again
Returned == pc = "ready" /\ ret.kind \notin {"NotCalled"}

\* the last call returned a token
ReturnedToken == pc = "ready" /\ ret.kind \notin {"NotCalled", "None", "Panic"}

\* the last call returned the end-of-input signal
AtEnd == pc = "ready" /\ ret = None

\* t is a prefix of u
IsPrefix(t, u) == Len(t) <= Len(u) /\ SubSeq(u, 1, Len(t)) = t

\* byte c occurs in t
Occurs(c, t) == \E i \in 1..Len(t) : t[i] = c

\* text t holds no quote character and no backslash
Plain(t) == ~Occurs(SQT, t) /\ ~Occurs(DQT, t) /\ ~Occurs(BSLASH, t)

\* the number of `$(` that begin within the first k bytes of t
Opens(t, k) ==
    Cardinality({i \in 1..k : t[i] = DOLLAR /\ i < Len(t) /\ t[i + 1] = LPAREN})

\* the number of `)` within the first k bytes of t
Closes(t, k) == Cardinality({i \in 1..k : t[i] = RPAREN})

\* every `)` of t closes a `$(` of t, and every `$(` of t is closed in t
Balanced(t) ==
    /\ \A k \in 1..Len(t) : Opens(t, k) >= Closes(t, k)
    /\ Opens(t, Len(t)) = Closes(t, Len(t))

\* the sub-lexers that scan to a closing delimiter
GroupLexers == {"braced_variable", "process", "array_process", "braces"}

\* the closing delimiter of a group
Closer(fn) ==
    CASE fn = "process" -> RPAREN
      [] fn = "array_process" -> RBRACK
      [] OTHER -> RBRACE

\* the running call has ended, with a result or with a panic
CallOver == pc \in {"ready", "panic"} /\ ret # NotCalled

-----------------------------------------------------------------------------
(* C1..C10 *)

\* C1: when process() was entered at offset `start` and the line holds, at
\* some offset e, a `)` such that the bytes between are free of quotes and
\* backslashes and balanced in `$(` / `)`, the call returns a Process token
\* with exactly those bytes and leaves the cursor at e + 1; the two nested
\* lines of the tests and of the specification give the expected tokens.
C1_NestedProcess ==
    /\ (CallOver /\ lexer = "process") =>
          \A e \in start..(DataLen - 1) :
             (At(e) = RPAREN /\ Plain(Slice(start, e)) /\ Balanced(Slice(start, e)))
                => /\ pc = "ready"
                   /\ ret.kind = "Process"
                   /\ ret.text = Slice(start, e)
                   /\ read = e + 1
    /\ (data = Line_words_process_recursion /\ AtEnd)
          => out = Expected_words_process_recursion
    /\ (data = Line_nested_process /\ AtEnd)
          => out = SubSeq(Expected_words_process_recursion, 1, 3)
    /\ (data = Line_sibling_process /\ AtEnd)
          => out = <<Expected_words_process_recursion[5]>>

\* C1 witness: a Process token whose quote-free text holds two further `$(`
C1_Witness ==
    /\ ReturnedToken
    /\ lexer = "process"
    /\ ret.kind = "Process"
    /\ Plain(ret.text)
    /\ Opens(ret.text, Len(ret.text)) >= 2

\* the quoting state of a shell word after the first k bytes of t:
\* "n" outside quotes, "s" inside '...', "d" inside "..."
RECURSIVE QuoteState(_, _)
QuoteState(t, k) ==
    IF k = 0 THEN "n"
    ELSE LET p == QuoteState(t, k - 1) IN
         IF p = "n" THEN (IF t[k] = SQT THEN "s" ELSE IF t[k] = DQT THEN "d" ELSE "n")
         ELSE IF p = "s" THEN (IF t[k] = SQT THEN "n" ELSE "s")
         ELSE (IF t[k] = DQT THEN "n" ELSE "d")

\* t is made of balanced quoted segments and plain bytes, with every `)`
\* and every `$` inside a quoted segment, and no backslash
QuotedSegments(t) ==
    /\ ~Occurs(BSLASH, t)
    /\ QuoteState(t, Len(t)) = "n"
    /\ \A k \in 1..Len(t) : t[k] \in {RPAREN, DOLLAR} => QuoteState(t, k) # "n"

\* C2 (as claimed): on a line `$(` body `)` whose body is made of balanced
\* single- or double-quoted segments, the first call returns Process(body,
\* false): the `)` inside the quoted segments do not close the substitution.
C2_QuotedBodyVerbatim ==
    (/\ CallOver
     /\ DataLen >= 3
     /\ SubSeq(data, 1, 2) = <<DOLLAR, LPAREN>>
     /\ data[DataLen] = RPAREN
     /\ QuotedSegments(SubSeq(data, 3, DataLen - 1)))
        => /\ Len(out) >= 1
           /\ out[1] = Process(SubSeq(data, 3, DataLen - 1), FALSE)

\* C3 (as claimed): when process() or array_process() returns a token, the
\* flags equal the flags the sub-lexer was entered with.
C3_FlagsRestored ==
    (ReturnedToken /\ lexer \in {"process", "array_process"}) => flags = entryFlags

\* C4 (as claimed): the `quoted` field of a Process / ArrayProcess token is
\* the double-quote flag at the moment the sub-lexer was entered.
C4_QuotedAtEntry ==
    (ReturnedToken /\ lexer \in {"process", "array_process"})
        => ret.quoted = Has(entryFlags, DQUOTE)

\* C5: on the line of test_words the tokens returned are, at every moment,
\* the first tokens of the expected vector, no call panics, and when the
\* end of input is signalled all fourteen have been returned.
C5_MixedLine ==
    data = Line_test_words =>
        /\ pc # "panic"
        /\ IsPrefix(out, Expected_test_words)
        /\ AtEnd => out = Expected_test_words

\* C5 witness: the end of input is signalled on the line of test_words
C5_Witness == data = Line_test_words /\ AtEnd /\ Len(out) = 14

\* the line is ' body ' with a non-empty body free of `'` and backslash
SingleQuotedLine ==
    /\ DataLen >= 3
    /\ data[1] = SQT
    /\ data[DataLen] = SQT
    /\ ~Occurs(SQT, SubSeq(data, 2, DataLen - 1))
    /\ ~Occurs(BSLASH, SubSeq(data, 2, DataLen - 1))

\* C6: on a line ' body ' the only token ever returned is Normal(body): no
\* call panics, the tokens returned are at every moment a prefix of
\* <<Normal(body)>>, and at the end of input the token has been returned.
C6_SingleQuotesSuppress ==
    SingleQuotedLine =>
        /\ pc # "panic"
        /\ IsPrefix(out, <<Normal(SubSeq(data, 2, DataLen - 1))>>)
        /\ AtEnd => out = <<Normal(SubSeq(data, 2, DataLen - 1))>>

\* C6 witness: the end of a single-quoted line whose body holds a `$`, an
\* `@`, or a space
C6_Witness ==
    /\ SingleQuotedLine
    /\ AtEnd
    /\ Len(out) = 1
    /\ \E c \in {DOLLAR, AT, SP} : Occurs(c, out[1].text)

\* C7: every token returned by variable(), braced_variable() or
\* array_variable() has quoted = the double-quote flag at the moment the
\* sub-lexer was entered, and the line "$A" gives Variable("A", true) and
\* nothing else.
C7_VariableQuoted ==
    /\ (ReturnedToken /\ lexer \in {"variable", "braced_variable", "array_variable"})
          => ret.quoted = Has(entryFlags, DQUOTE)
    /\ data = Line_dq_variable =>
          /\ pc # "panic"
          /\ IsPrefix(out, <<Variable(<<65>>, TRUE)>>)
          /\ AtEnd => out = <<Variable(<<65>>, TRUE)>>

\* C7 witness: a reference lexed between double quotes
C7_Witness ==
    /\ ReturnedToken
    /\ lexer \in {"variable", "braced_variable", "array_variable"}
    /\ Has(entryFlags, DQUOTE)
    /\ ret.quoted

\* C8 (as claimed): array_variable() returns an ArrayVariable token with
\* index All, whether a delimiter or the end of input ends the name.
C8_ArrayVariableKind ==
    (ReturnedToken /\ lexer = "array_variable")
        => ret.kind = "ArrayVariable" /\ ret.index = Index_All

\* the offset of the first byte at or after offset s that is not a name
\* byte, or the length of the line
RECURSIVE NameEnd(_)
NameEnd(s) ==
    IF s >= DataLen THEN DataLen
    ELSE IF At(s) \in 48..57 \cup 65..90 \cup {95} \cup 97..122 THEN NameEnd(s + 1)
    ELSE s

\* C9 (as claimed): the name of a token of variable() / array_variable() is
\* the maximal run of name bytes that starts right after the sigil, and the
\* cursor is left on the byte that ended it.
C9_NameIsMaximalRun ==
    (ReturnedToken /\ lexer \in {"variable", "array_variable"})
        => /\ ret.text = Slice(callRead + 1, NameEnd(callRead + 1))
           /\ read = NameEnd(callRead + 1)

\* one step of a group sub-lexer, as C10 allows it
C10_GroupStep ==
    pc \in GroupLexers =>
        IF iter >= DataLen
        THEN pc' = "panic" /\ out' = out
        ELSE \/ pc' = pc
             \/ pc' = "panic"
             \/ /\ pc' = "ready"
                /\ At(iter) = Closer(pc)
                /\ pc # "braced_variable" => level = 0
                /\ ret'.kind \notin {"None", "Panic"}
                /\ out' = Append(out, ret')

\* C10: a group sub-lexer (`${`, `$(`, `@[`, `{`) whose iterator is
\* exhausted panics and returns no token; it returns only when it pulls its
\* closing delimiter (at nesting level zero where it counts levels), and
\* then returns a token, never the end-of-input signal.
C10_UnterminatedIsFatal == [][C10_GroupStep]_vars

\* C10 witness: a line that ended inside an open group, after a first token
C10_Witness ==
    /\ pc = "panic"
    /\ lexer \in GroupLexers
    /\ iter >= DataLen
    /\ Len(out) >= 1

-----------------------------------------------------------------------------
(* C11..C20 *)

\* the reading of a brace interior t after its first k bytes: whether the
\* next byte is escaped, the quoting ("n", "s" or "d") and the nesting level
RECURSIVE BraceState(_, _)
BraceState(t, k) ==
    IF k = 0 THEN [esc |-> FALSE, q |-> "n", lvl |-> 0]
    ELSE LET p == BraceState(t, k - 1)
             c == t[k]
         IN
         IF p.esc THEN [p EXCEPT !.esc = FALSE]
         ELSE IF c = BSLASH THEN [p EXCEPT !.esc = TRUE]
         ELSE IF c = SQT /\ p.q # "d" THEN [p EXCEPT !.q = IF @ = "s" THEN "n" ELSE "s"]
         ELSE IF c = DQT /\ p.q # "s" THEN [p EXCEPT !.q = IF @ = "d" THEN "n" ELSE "d"]
         ELSE IF c = LBRACE /\ p.q = "n" THEN [p EXCEPT !.lvl = @ + 1]
         ELSE IF c = RBRACE /\ p.q = "n" /\ p.lvl > 0 THEN [p EXCEPT !.lvl = @ - 1]
         ELSE p

\* byte k of t is unescaped, outside quotes and at nesting level zero
TopLevel(t, k) == BraceState(t, k - 1) = [esc |-> FALSE, q |-> "n", lvl |-> 0]

\* the positions of the commas of t that split it
SplitCommas(t) == {k \in 1..Len(t) : t[k] = COMMA /\ TopLevel(t, k)}

\* the i-th smallest member of the set P of positions
RECURSIVE Nth(_, _)
Nth(P, i) ==
    LET m == CHOOSE x \in P : \A y \in P : x <= y
    IN IF i = 1 THEN m ELSE Nth(P \ {m}, i - 1)

\* t cut at the positions P, the cut bytes left out
SplitAt(t, P) ==
    LET n == Cardinality(P)
        lo(i) == IF i = 1 THEN 1 ELSE Nth(P, i - 1) + 1
        hi(i) == IF i = n + 1 THEN Len(t) ELSE Nth(P, i) - 1
    IN [i \in 1..(n + 1) |-> SubSeq(t, lo(i), hi(i))]

\* the elements e joined with `,`
RECURSIVE JoinComma(_)
JoinComma(e) ==
    IF Len(e) = 0 THEN <<>>
    ELSE IF Len(e) = 1 THEN e[1]
    ELSE e[1] \o <<COMMA>> \o JoinComma(Tail(e))

\* the interior of the brace group the last call lexed
BraceInterior == Slice(entryStart, read - 1)

\* C11: when braces() returns, the interior of the group (from just after
\* the `{` to just before the closing `}`) holds no top-level `}`, the
\* elements are the interior cut at exactly its top-level commas (k commas
\* give k + 1 elements, nested groups and quoted or escaped commas stay
\* inside an element), joining the elements with `,` gives the interior
\* back, and `one{$ABC,$ABC}` gives Normal("one"), Brace(["$ABC", "$ABC"]).
C11_BraceElements ==
    /\ (ReturnedToken /\ lexer = "braces") =>
          /\ ret.kind = "Brace"
          /\ At(entryStart - 1) = LBRACE
          /\ At(read - 1) = RBRACE
          /\ \A k \in 1..Len(BraceInterior) :
                BraceInterior[k] = RBRACE => ~TopLevel(BraceInterior, k)
          /\ TopLevel(BraceInterior, Len(BraceInterior) + 1)
          /\ Len(ret.elements) = Cardinality(SplitCommas(BraceInterior)) + 1
          /\ ret.elements = SplitAt(BraceInterior, SplitCommas(BraceInterior))
          /\ JoinComma(ret.elements) = BraceInterior
    /\ (data = Line_brace_elements /\ AtEnd)
          => out = <<Expected_test_words[7], Expected_test_words[8]>>

\* C11 witness: a Brace token with two elements, one of them holding a
\* nested group with a comma of its own
C11_Witness ==
    /\ ReturnedToken
    /\ lexer = "braces"
    /\ Len(ret.elements) = 2
    /\ \E i \in 1..2 : Occurs(COMMA, ret.elements[i]) /\ Occurs(LBRACE, ret.elements[i])

\* the bytes of the line a token borrows
TokenText(tok) == IF tok.kind = "Brace" THEN JoinComma(tok.elements) ELSE tok.text

\* text t is the sub-range of the line that ends at offset b
EndsAt(t, b) == Len(t) <= b /\ b <= DataLen /\ Slice(b - Len(t), b) = t

\* C12 (as claimed): the range [callRead, read) a call consumed lies in the
\* line, the text of the token it returned is a sub-range of the line inside
\* that range, and when the end of input is signalled the cursor is the
\* length of the line, so that the ranges of the calls (each starting where
\* the one before ended) cover [0, length) exactly.
C12_SpanCoverage ==
    /\ Returned => callRead <= read /\ read <= DataLen
    /\ ReturnedToken =>
          \E b \in callRead..read :
             /\ EndsAt(TokenText(ret), b)
             /\ b - Len(TokenText(ret)) >= callRead
    /\ AtEnd => read = DataLen

\* the bytes that close a token: a closing delimiter or a quote character
ClosingBytes == {RPAREN, RBRACK, RBRACE, SQT, DQT}

\* C13 (as claimed): the cursor never falls below its value at the call,
\* and when a token is returned the cursor is the offset that follows the
\* token's text, or the closing byte after that text.
C13_CursorFollowsToken ==
    /\ callRead <= read
    /\ ReturnedToken =>
          \/ EndsAt(TokenText(ret), read)
          \/ /\ read >= 1
             /\ read <= DataLen
             /\ At(read - 1) \in ClosingBytes
             /\ EndsAt(TokenText(ret), read - 1)

\* one step of the lexer, seen from the loop variant: inside a call every
\* pass pulls a byte or two from the iterator (which holds at most the bytes of
\* the line) or ends the call; a token is appended to the output only by
\* the step that ends a call, and that call started inside the line, left
\* the cursor strictly above where it started, and brought the number of
\* tokens returned so far to no more than the number of bytes of the line
C14_Step ==
    /\ pc \notin {"ready", "panic"} =>
          pc' \in {"ready", "panic"} \/ (iter < iter' /\ iter' <= DataLen)
    /\ pc = "panic" => pc' = "panic"
    /\ out' # out =>
          /\ pc # "ready" /\ pc' = "ready"
          /\ ret'.kind \notin {"None", "Panic", "NotCalled"}
          /\ out' = Append(out, ret')
          /\ callRead < DataLen
          /\ callRead' = callRead
          /\ read' > callRead
          /\ Len(out') <= DataLen
    /\ (pc' = "ready" /\ ret'.kind \notin {"None", "Panic", "NotCalled"} /\ pc # "ready")
          => out' # out
    /\ (pc = "ready" /\ pc' = "ready") => ret' = None /\ out' = out /\ read' = read

\* C14: the token stream is finite.  Every call ends after at most one
\* step per remaining byte; each call that returns a token leaves the
\* cursor strictly greater than it was before the call; on a line of n
\* bytes at most n tokens are returned; a call made when nothing is left
\* returns the end-of-input signal and no token; after the fatal path
\* nothing more is returned.
C14_FiniteStream == [][C14_Step]_vars

\* C14 witness: a line of two bytes or more has been lexed to the
\* end-of-input signal and gave as many tokens as it has bytes
C14_Witness ==
    /\ AtEnd
    /\ DataLen >= 2
    /\ Len(out) = DataLen

\* both quote flags are set
BothQuotes(f) == Has(f, SQUOTE) /\ Has(f, DQUOTE)

\* offset k holds a quote character of the kind that is not open under f
OtherQuoteAt(k, f) ==
    /\ k < DataLen
    /\ \/ At(k) = SQT /\ Has(f, DQUOTE)
       \/ At(k) = DQT /\ Has(f, SQUOTE)

\* the step pulls from the iterator a quote character of the other kind
PullsOtherQuote ==
    /\ pc \notin {"ready", "panic"}
    /\ \E k \in iter..(iter' - 1) : OtherQuoteAt(k, flags)

\* C15 (as claimed): the two quote flags are never both set, and a step
\* that pulls a quote character of the other kind changes no flag at all.
C15_StepAsClaimed ==
    /\ ~BothQuotes(flags) /\ ~BothQuotes(flags')
    /\ PullsOtherQuote => flags' = flags

C15_OtherQuoteChangesNoFlag == [][C15_StepAsClaimed]_vars

C15_Step ==
    /\ ~BothQuotes(flags) /\ ~BothQuotes(flags')
    /\ PullsOtherQuote =>
          /\ Has(flags', SQUOTE) <=> Has(flags, SQUOTE)
          /\ Has(flags', DQUOTE) <=> Has(flags, DQUOTE)
          /\ IF Has(flags, BACKSL) /\ pc \in {"normal_loop", "process", "array_process", "braces"}
             THEN flags' = Xor(flags, BACKSL)
             ELSE flags' = flags

\* C15 (amended): the two quote flags are never both set, in any state of
\* the driver or of a sub-lexer, and a step that pulls a quote character of
\* the other kind changes neither quote flag; it changes no flag at all
\* unless the byte is escaped in a loop that handles escapes, where it
\* clears the escape flag and nothing else.
C15_QuotesExclusive == [][C15_Step]_vars

\* C15 witness: a single quote has just been pulled inside double quotes,
\* unescaped, and the double-quote flag alone is set
C15_Witness ==
    /\ pc = "normal_loop"
    /\ iter >= 1
    /\ At(iter - 1) = SQT
    /\ read = iter
    /\ flags = DQUOTE
    /\ Occurs(DQT, Slice(0, iter - 1))

\* the offset of the first delimiter byte at or after offset s, or the
\* length of the line if there is none
RECURSIVE DelimiterFrom(_)
DelimiterFrom(s) ==
    IF s >= DataLen THEN DataLen
    ELSE IF IsDelimiter(At(s)) THEN s
    ELSE DelimiterFrom(s + 1)

\* C16: a `~` met outside quotes where a token starts gives a Tilde token:
\* the tilde lexer is entered only on an unquoted `~`, its token is the
\* text from that `~` (included) to the first delimiter byte after it
\* (excluded) or to the end of the line, the cursor is left on that
\* delimiter, and the flags are those at entry.  A line that starts with
\* `~` has that Tilde as its first token; `~ ` gives Tilde("~") then
\* Whitespace(" ") and `~` alone gives Tilde("~").
C16_TildeToken ==
    /\ lexer = "tilde" =>
          /\ Unquoted(entryFlags) /\ flags = entryFlags
          /\ entryStart < DataLen /\ At(entryStart) = TILDE
          /\ pc = "tilde" => start = entryStart /\ read <= DelimiterFrom(entryStart + 1)
          /\ pc # "tilde" =>
                /\ ReturnedToken
                /\ read = DelimiterFrom(entryStart + 1)
                /\ ret = Tilde(Slice(entryStart, read))
    /\ (ReturnedToken /\ ret.kind = "Tilde") => lexer = "tilde"
    /\ (DataLen >= 1 /\ At(0) = TILDE /\ out # <<>>)
          => out[1] = Tilde(Slice(0, DelimiterFrom(1)))
    /\ (data = <<TILDE, SP>> /\ AtEnd) => out = <<Tilde(<<TILDE>>), Whitespace(<<SP>>)>>
    /\ (data = <<TILDE>> /\ AtEnd) => out = <<Tilde(<<TILDE>>)>>

\* C16 witness: a Tilde token of more than the `~` was returned with the
\* cursor on the delimiter that ended it
C16_Witness ==
    /\ ReturnedToken
    /\ ret.kind = "Tilde"
    /\ Len(ret.text) = 2
    /\ read < DataLen
    /\ IsDelimiter(At(read))

\* C17 (as claimed): the cursor is a valid offset into the line in every
\* state, 0 <= read <= data.len(), and it is the length of the line when
\* the end of input is signalled.
C17_CursorInRange ==
    /\ 0 <= read
    /\ read <= DataLen
    /\ AtEnd => read = DataLen

\* the byte at offset k is immediately preceded by an unescaped backslash
RECURSIVE EscapedAt(_)
EscapedAt(k) == k >= 1 /\ At(k - 1) = BSLASH /\ ~EscapedAt(k - 1)

\* the bytes that start or end a token, or toggle a quote flag, in
\* unquoted top-level text
SpecialBytes == {DOLLAR, AT, SP, LBRACE, SQT, DQT}

\* a line of unquoted text in which every special byte is escaped
AllSpecialsEscaped ==
    /\ DataLen >= 1
    /\ At(0) # TILDE
    /\ \A k \in 0..(DataLen - 1) : At(k) \in SpecialBytes => EscapedAt(k)

\* C18 (as claimed): in unquoted top-level text an escaped byte is literal
\* wherever its backslash stands, the first byte of the token included: on
\* a line in which every `$`, `@`, space, `{` and quote character is
\* escaped no sub-lexer is entered, no quote flag is set, and the whole
\* line comes back as a single Normal token; so for `a\$B` and for `\$B`.
C18_EscapedIsLiteral ==
    /\ AllSpecialsEscaped =>
          /\ lexer \in {"none", "normal"}
          /\ ~Has(flags, SQUOTE) /\ ~Has(flags, DQUOTE)
          /\ AtEnd => out = <<Normal(data)>>
    /\ (data = Line_escaped_dollar /\ AtEnd) => out = <<Normal(Line_escaped_dollar)>>
    /\ (data = Line_leading_escape /\ AtEnd) => out = <<Normal(Line_leading_escape)>>

\* C19 (as claimed): the braced-variable lexer ends the name only at an
\* unescaped `}`: its token is Variable(body, quoted) where body runs from
\* just after `${` to the first `}` that is not preceded by an unescaped
\* backslash, and the cursor is left just past that `}`.
C19_BracedEndsAtUnescaped ==
    (ReturnedToken /\ lexer = "braced_variable") =>
        /\ entryStart < read /\ read <= DataLen
        /\ At(read - 1) = RBRACE
        /\ ~EscapedAt(read - 1)
        /\ \A k \in entryStart..(read - 2) : At(k) = RBRACE => EscapedAt(k)
        /\ ret = Variable(Slice(entryStart, read - 1), Quoted(entryFlags))

\* the sub-lexers `$` and `@` dispatch to
SigilLexers == {"variable", "array_variable", "braced_variable", "process", "array_process"}

\* the step pulls the byte c from the iterator, unescaped
Pulls(c) ==
    /\ pc \notin {"ready", "panic"}
    /\ iter < DataLen
    /\ At(iter) = c
    /\ ~Has(flags, BACKSL)

C20_Step ==
    \* the flags are carried from one call to the next
    /\ pc = "ready" => flags' = flags
    \* the double-quote flag changes only when a `"` is pulled
    /\ (Has(flags', DQUOTE) # Has(flags, DQUOTE)) => Pulls(DQT) /\ ~Has(flags, SQUOTE)
    \* inside double quotes a space, `~` or `{` starts no token of its own
    \* and does not end the Normal token
    /\ (Has(flags, DQUOTE) /\ (Pulls(SP) \/ Pulls(TILDE) \/ Pulls(LBRACE))
            /\ pc \in {"next_loop", "normal_loop"})
          => pc' = "normal_loop" /\ read' = read + 1 /\ out' = out
    \* inside double quotes `$` and `@` still dispatch
    /\ (Has(flags, DQUOTE) /\ (Pulls(DOLLAR) \/ Pulls(AT)) /\ pc = "next_loop")
          => pc' \in SigilLexers /\ Has(entryFlags', DQUOTE)
    /\ (Has(flags, DQUOTE) /\ (Pulls(DOLLAR) \/ Pulls(AT)) /\ pc = "normal_loop")
          => pc' = "ready" /\ read' = read /\ ret'.kind = "Normal"
    \* a Whitespace, Tilde or Brace token comes from unquoted text only
    /\ (pc' = "ready" /\ ret'.kind \in {"Whitespace", "Tilde", "Brace"})
          => ~Has(entryFlags', SQUOTE) /\ ~Has(entryFlags', DQUOTE)
    \* the example "$A b"
    /\ (data = Line_dq_variable_rest /\ pc' = "ready" /\ ret' = None)
          => out' = <<Variable(<<65>>, TRUE), Normal(<<SP, 98>>)>>

\* C20: the quote state spans token boundaries and selects the dispatch.
\* The flags are the same after a call begins as they were when the call
\* before ended, and the double-quote flag changes only when a `"` is read;
\* while it is set a space, `~` or `{` becomes part of a Normal token and
\* never gives a Whitespace, Tilde or Brace token, whereas `$` and `@` are
\* still handed to the variable / substitution lexers, which see the flag
\* set.  The line "$A b" gives Variable("A", true) then Normal(" b").
C20_QuoteStateSpansTokens == [][C20_Step]_vars

\* C20 witness: inside double quotes a Variable token was returned quoted
\* and a later call returned a Normal token that holds a space
C20_Witness ==
    /\ ReturnedToken
    /\ Len(out) >= 2
    /\ out[Len(out) - 1].kind = "Variable"
    /\ out[Len(out) - 1].quoted
    /\ ret.kind = "Normal"
    /\ Occurs(SP, ret.text)
    /\ Occurs(DQT, Slice(0, callRead))

-----------------------------------------------------------------------------
(* C21..C24 *)

\* the number of `@[` that start within the first k bytes of t
ArrayOpens(t, k) ==
    Cardinality({i \in 1..k : t[i] = AT /\ i < Len(t) /\ t[i + 1] = LBRACK})

\* the number of `]` within the first k bytes of t
ArrayCloses(t, k) == Cardinality({i \in 1..k : t[i] = RBRACK})

\* every `]` of t closes an `@[` of t, and every `@[` of t is closed in t
ArrayBalanced(t) ==
    /\ \A k \in 1..Len(t) : ArrayOpens(t, k) >= ArrayCloses(t, k)
    /\ ArrayOpens(t, Len(t)) = ArrayCloses(t, Len(t))

\* the call of array_process() is over and, where the line holds a `]` at
\* an offset e with the bytes from `start` to e free of quotes and
\* backslashes and balanced in `@[` / `]`, it returned those bytes
ArrayProcessMatched ==
    (CallOver /\ lexer = "array_process") =>
        \A e \in start..(DataLen - 1) :
           (At(e) = RBRACK /\ Plain(Slice(start, e)) /\ ArrayBalanced(Slice(start, e)))
              => /\ pc = "ready"
                 /\ ret = ArrayProcess(Slice(start, e), Has(entryFlags, DQUOTE), Index_All)
                 /\ read = e + 1

\* the two example lines give the token of the outermost `@[` ... `]`
ArrayProcessExamples ==
    /\ (data = Line_nested_array_process /\ AtEnd)
          => out = <<ArrayProcess(Slice(2, DataLen - 1), FALSE, Index_All)>>
    /\ (data = Line_mixed_array_process /\ AtEnd)
          => out = <<ArrayProcess(Slice(2, DataLen - 1), FALSE, Index_All)>>

C21_Step ==
    \* one pass of the loop of array_process that stays in the loop
    /\ (pc = "array_process" /\ pc' = "array_process") =>
          LET c == At(iter)
              live == ~Has(flags, BACKSL) /\ ~Has(flags, SQUOTE)
              opens == live /\ c = AT /\ iter + 1 < DataLen /\ At(iter + 1) = LBRACK
              closes == live /\ c = RBRACK
          IN  /\ iter < DataLen
              /\ level' = IF opens THEN level + 1 ELSE IF closes THEN level - 1 ELSE level
              /\ closes => level > 0
              /\ c \in {DOLLAR, LPAREN, RPAREN, LBRACK} => level' = level
    \* the pass that returns
    /\ (pc = "array_process" /\ pc' = "ready") =>
          /\ iter < DataLen /\ At(iter) = RBRACK
          /\ ~Has(flags, BACKSL) /\ ~Has(flags, SQUOTE)
          /\ level = 0
          /\ ret' = ArrayProcess(Slice(start, read), Has(flags, DQUOTE), Index_All)
          /\ read' = read + 1
    \* the other kind of bracket in the loop of process
    /\ (pc = "process" /\ pc' = "process" /\ At(iter) \in {AT, LBRACK, RBRACK})
          => level' = level
    /\ ArrayProcessMatched'
    /\ ArrayProcessExamples'

\* C21: the array-process lexer keeps a nesting level of its own.  Inside
\* `@[` ... `]` the level goes up only at an `@` directly followed by `[`
\* outside single quotes, goes down only at a `]` outside single quotes,
\* and the lexer returns only at such a `]` met at level zero; `$`, `(`,
\* `)` and a bare `[` leave the level as it is, and so do `@`, `[` and `]`
\* in the `$(` lexer.  For properly nested text the token is
\* ArrayProcess(text, quoted, All) with the bytes between the opening `@[`
\* and its matching `]`: `@[echo @[echo one] two]` gives
\* ArrayProcess("echo @[echo one] two", false, All).
C21_ArrayNesting == [][C21_Step]_vars

\* C21 witness: an ArrayProcess token whose quote-free text holds a nested
\* `@[` ... `]` and a `$(` ... `)`
C21_Witness ==
    /\ ReturnedToken
    /\ ret.kind = "ArrayProcess"
    /\ Plain(ret.text)
    /\ ArrayOpens(ret.text, Len(ret.text)) >= 1
    /\ Opens(ret.text, Len(ret.text)) >= 1
    /\ read = DataLen

\* an alphanumeric byte or one of `_`, `-`, `.`, `/`
PathByte(c) == c \in 48..57 \cup 65..90 \cup 97..122 \cup {95, 45, 46, SLASH}

\* C22 (as claimed): the tilde lexer takes alphanumerics and `_`, `-`, `.`
\* and `/` as part of its token, and only a byte outside that set ends it:
\* a Tilde token is followed in the line by no such byte, and each of
\* `~/foo`, `~user/dir` and `~a.b-c` is a single Tilde token.
C22_TildeTakesPath ==
    /\ (ReturnedToken /\ lexer = "tilde") =>
          /\ ret.kind = "Tilde"
          /\ read = DataLen \/ ~PathByte(At(read))
    /\ (data = Line_tilde_path /\ AtEnd) => out = <<Tilde(Line_tilde_path)>>
    /\ (data = Line_tilde_user_path /\ AtEnd) => out = <<Tilde(Line_tilde_user_path)>>
    /\ (data = Line_tilde_punctuation /\ AtEnd) => out = <<Tilde(Line_tilde_punctuation)>>

\* the last call returned a Whitespace token
ReturnedWhitespace == ReturnedToken /\ ret.kind = "Whitespace"

\* a Whitespace token is a run of one or more unquoted spaces that the byte
\* after it, if any, does not continue
WhitespaceIsMaximalRun ==
    ReturnedWhitespace =>
        /\ lexer = "whitespaces"
        /\ Unquoted(flags)
        /\ callRead <= entryStart /\ entryStart < read /\ read <= DataLen
        /\ ret.text = Slice(entryStart, read)
        /\ \A i \in 1..Len(ret.text) : ret.text[i] = SP
        /\ read = DataLen \/ At(read) # SP

\* the last two calls both returned a Whitespace token
TwoWhitespacesInARow ==
    /\ ReturnedWhitespace
    /\ Len(out) >= 2
    /\ out[Len(out) - 1].kind = "Whitespace"

\* C23 (as claimed): every Whitespace token is a maximal run of one or
\* more space bytes outside quotes, and two Whitespace tokens are never
\* returned by consecutive calls.
C23_WhitespaceNeverTwice ==
    /\ WhitespaceIsMaximalRun
    /\ ~TwoWhitespacesInARow

\* C23 (amended): every Whitespace token is a maximal run of one or more
\* space bytes outside quotes: its text is spaces only and not empty, and
\* the byte after it, if any, is not a space.  Two Whitespace tokens come
\* from consecutive calls only when the second call first consumed one or
\* more quote characters, which stand between the two runs.
C23_WhitespaceMaximal ==
    /\ WhitespaceIsMaximalRun
    /\ TwoWhitespacesInARow =>
          /\ callRead < entryStart
          /\ \A k \in callRead..(entryStart - 1) : At(k) \in {SQT, DQT}

\* C23 witness: a Whitespace token of two spaces was returned with a byte
\* that is not a space after it and a byte before it
C23_Witness ==
    /\ ReturnedWhitespace
    /\ Len(ret.text) = 2
    /\ entryStart >= 1
    /\ read < DataLen

\* the line is one or more pairs of quote characters, `''` or `""`, and
\* nothing else
QuotePairsOnly ==
    /\ DataLen >= 2
    /\ DataLen % 2 = 0
    /\ \A k \in 0..(DataLen - 1) :
          k % 2 = 0 => At(k) \in {SQT, DQT} /\ At(k + 1) = At(k)

\* C24: every Normal token has a text that is not empty.  The plain-text
\* loop is entered only with at least one byte between `start` and the
\* cursor, so the `start == self.read` branch after it never returns the
\* end-of-input signal and the token borrowed at the end of the line is not
\* empty; a line made of quote pairs only gives no token, only the
\* end-of-input signal.
C24_NormalNotEmpty ==
    /\ (ReturnedToken /\ ret.kind = "Normal") =>
          /\ lexer = "normal"
          /\ Len(ret.text) >= 1
    /\ \A i \in 1..Len(out) : out[i].kind = "Normal" => out[i].text # <<>>
    /\ pc = "normal_loop" => start < read
    /\ (lexer = "normal" /\ Returned) => ret.kind = "Normal"
    /\ QuotePairsOnly =>
          /\ out = <<>>
          /\ pc \in {"ready", "next_loop"}
          /\ Returned => AtEnd /\ read = DataLen

\* C24 witness: the line ''a"" was read to the end-of-input signal and gave
\* one Normal token of a single byte between its two quote pairs
C24_Witness ==
    /\ data = Line_quote_pairs_letter
    /\ AtEnd
    /\ out = <<Normal(<<LETTER>>)>>

=============================================================================
